---- MODULE Spec2Model ----
(***************************************************************************)
(* Model of go-bbhw's FakeGPIO simulation graph (gpio_fake.go) and of the  *)
(* SysfsGPIO edge monitor (gpio_sysfs.go, SetEdgeCallback).                *)
(***************************************************************************)
EXTENDS Integers, Sequences, FiniteSets, TLC

(***************************************************************************)
(* Bounds of the model.                                                    *)
(***************************************************************************)
\* most entries held by all connectedTo lists together
MaxEdges == 2

\* the FakeGPIO objects that exist: a source and two more, enough for a fan-out
\* of two, a chain of three and a cycle
Pins == {1, 2, 3}

\* longest argument list given to ConnectTo: one entry for every other gpio
MaxConn == Cardinality(Pins) - 1

\* bbhw.IN / bbhw.OUT, the two values SetDirection accepts, and one it rejects
GPIO_IN == "IN"
GPIO_OUT == "OUT"
BadDirection == "neither"

\* a nil *FakeGPIO inside a ConnectTo argument list
Nil == 0

\* how a call ended: it returned (a nil error, or nothing), or it panicked with
\* the message of the source
NoCall == "no call yet"
Returned == "returned"
PanicSetStateIN == "tried to set state on IN gpio"
PanicFakeInputOUT == "tried to fake input for output gpio"
PanicDirection == "direction neither IN nor OUT"

VARIABLES
    gpio,       \* FakeGPIO objects: pin -> [dir, value, connectedTo]
    ret,        \* the last FakeGPIO call and how it ended: [op, err]
    unwired,    \* history: [src, pins], the pins the last ConnectTo on src dropped
    direction,  \* text of /sys/class/gpio/gpioN/direction
    edge,       \* text of /sys/class/gpio/gpioN/edge
    level,      \* the logical level the value file reports
    pending,    \* gpio.fd has an unread edge notification (poll reports POLLPRI)
    exported,   \* the files of gpioN exist
    pc,         \* goroutine -> where the func of SetEdgeCallback stands
    timeout,    \* goroutine -> the timeout it was started with
    st,         \* goroutine -> its local `state`
    woke,       \* goroutine -> why its last Poll returned
    ch,         \* the channel *callback: [buf, cap, closed]
    received,   \* what the consumer has taken from the channel
    attachErr,  \* what the last SetEdgeCallback returned
    crashed,    \* a goroutine panicked: the process is gone
    reads,      \* history: goroutine -> the reads after a Poll, [val, cause]
    ntrans,     \* history: level changes since the first goroutine started
    spaced,     \* history: each of them found every goroutine waiting in Poll
    matched,    \* history: each of them was an edge the edge mode reports
    failedAt    \* history: values pushed when a wait or read first failed, or -1

fvars == <<gpio, ret, unwired>>
kvars == <<direction, edge, level, pending, exported>>
gvars == <<pc, timeout, st, woke>>
cvars == <<ch, received, attachErr, crashed>>
hvars == <<reads, ntrans, spaced, matched, failedAt>>
mvars == <<kvars, gvars, cvars, hvars>>
vars == <<fvars, mvars>>

Range(s) == {s[i] : i \in 1..Len(s)}

SeqsUpTo(S, n) == UNION {[1..k -> S] : k \in 0..n}

RECURSIVE EdgeCount(_, _)
EdgeCount(g, ps) ==
    IF ps = {} THEN 0
    ELSE LET p == CHOOSE q \in ps : TRUE
         IN  Len(g[p].connectedTo) + EdgeCount(g, ps \ {p})

(***************************************************************************)
(* gpio_fake.go                                                            *)
(***************************************************************************)

\* NewFakeNamedGPIO: value false, no connections, the direction given
NewFakeGPIO(dir_) ==
    [dir |-> dir_, value |-> FALSE, connectedTo |-> <<>>]

\* FakeGPIO.GetState
GetState(g, p) == g[p].value

\* FakeGPIO.CheckDirection
CheckDirection(g, p) == g[p].dir

\* FakeInput without its direction test
FakeInputOnUnchecked(g, p, state) ==
    [g |-> [g EXCEPT ![p].value = state], ret |-> Returned]

\* FakeInput passing the value on to the gpios connected to its own
FakeInputOnCascading(g, p, state) ==
    IF g[p].dir = GPIO_IN
    THEN [g |-> [q \in Pins |->
                    IF q = p \/ q \in Range(g[p].connectedTo)
                    THEN [g[q] EXCEPT !.value = state] ELSE g[q]],
          ret |-> Returned]
    ELSE [g |-> g, ret |-> PanicFakeInputOUT]

\* FakeGPIO.FakeInput on graph g: the graph after the call and how it ended
FakeInputOn(g, p, state) ==
    IF g[p].dir = GPIO_IN
    THEN [g |-> [g EXCEPT ![p].value = state], ret |-> Returned]
    ELSE [g |-> g, ret |-> PanicFakeInputOUT]

\* a loop that leaves after the first connected gpio
RECURSIVE PropagateFirstOnly(_, _, _, _)
PropagateFirstOnly(g, conn, i, state) ==
    IF i > Len(conn) THEN [g |-> g, ret |-> Returned]
    ELSE IF conn[i] = Nil THEN PropagateFirstOnly(g, conn, i + 1, state)
    ELSE FakeInputOn(g, conn[i], state)

\* the range loop of SetState over connectedTo, from index i; a panic of
\* FakeInput unwinds out of the loop and leaves the earlier targets set
RECURSIVE Propagate(_, _, _, _)
Propagate(g, conn, i, state) ==
    IF i > Len(conn) THEN [g |-> g, ret |-> Returned]
    ELSE IF conn[i] = Nil THEN Propagate(g, conn, i + 1, state)
    ELSE LET r == FakeInputOn(g, conn[i], state)
         IN  IF r.ret = Returned
             THEN Propagate(r.g, conn, i + 1, state)
             ELSE r

\* SetState without its direction test
SetStateOnUnchecked(g, p, state) ==
    Propagate([g EXCEPT ![p].value = state], g[p].connectedTo, 1, state)

\* SetState testing every direction before it assigns anything
SetStateOnAtomic(g, p, state) ==
    IF g[p].dir # GPIO_OUT THEN [g |-> g, ret |-> PanicSetStateIN]
    ELSE IF \E i \in 1..Len(g[p].connectedTo) :
                g[p].connectedTo[i] # Nil /\ g[g[p].connectedTo[i]].dir # GPIO_IN
    THEN [g |-> g, ret |-> PanicFakeInputOUT]
    ELSE Propagate([g EXCEPT ![p].value = state], g[p].connectedTo, 1, state)

\* FakeGPIO.SetState on graph g
SetStateOn(g, p, state) ==
    IF g[p].dir = GPIO_OUT
    THEN Propagate([g EXCEPT ![p].value = state], g[p].connectedTo, 1, state)
    ELSE [g |-> g, ret |-> PanicSetStateIN]

\* ConnectTo adding to the list it holds
ConnectToOnAppending(g, p, conn) ==
    [g EXCEPT ![p].connectedTo = conn \o g[p].connectedTo]

\* ConnectTo refusing a list with a gpio that is not IN
ConnectToOnChecked(g, p, conn) ==
    IF \A i \in 1..Len(conn) : conn[i] = Nil \/ g[conn[i]].dir = GPIO_IN
    THEN [g EXCEPT ![p].connectedTo = conn]
    ELSE g

\* FakeGPIO.ConnectTo on graph g: the slice is stored as given, unchecked
ConnectToOn(g, p, conn) == [g EXCEPT ![p].connectedTo = conn]

\* SetDirection refusing OUT for a gpio that some gpio is connected to
SetDirectionOnGuarded(g, p, dir_) ==
    IF dir_ = GPIO_OUT /\ \E q \in Pins : p \in Range(g[q].connectedTo)
    THEN [g |-> g, ret |-> PanicDirection]
    ELSE IF dir_ \in {GPIO_IN, GPIO_OUT}
    THEN [g |-> [g EXCEPT ![p].dir = dir_], ret |-> Returned]
    ELSE [g |-> g, ret |-> PanicDirection]

\* FakeGPIO.SetDirection on graph g
SetDirectionOn(g, p, dir_) ==
    IF dir_ \in {GPIO_IN, GPIO_OUT}
    THEN [g |-> [g EXCEPT ![p].dir = dir_], ret |-> Returned]
    ELSE [g |-> g, ret |-> PanicDirection]

SetState(p, state) ==
    /\ gpio' = SetStateOn(gpio, p, state).g
    /\ ret' = [op |-> "SetState", err |-> SetStateOn(gpio, p, state).ret]

FakeInput(p, state) ==
    /\ gpio' = FakeInputOn(gpio, p, state).g
    /\ ret' = [op |-> "FakeInput", err |-> FakeInputOn(gpio, p, state).ret]

ConnectTo(p, conn) ==
    /\ ret' = [op |-> "ConnectTo", err |-> Returned]
    /\ gpio' = ConnectToOn(gpio, p, conn)
    /\ EdgeCount(gpio', Pins) <= MaxEdges

SetDirection(p, dir_) ==
    /\ gpio' = SetDirectionOn(gpio, p, dir_).g
    /\ ret' = [op |-> "SetDirection", err |-> SetDirectionOn(gpio, p, dir_).ret]

\* the pins a ConnectTo(p, conn) drops from p's list
Dropped(p, conn) == (Range(gpio[p].connectedTo) \ Range(conn)) \ {Nil}

ConnArgs == SeqsUpTo(Pins \cup {Nil}, MaxConn)

InitGraph ==
    /\ gpio \in {[p \in Pins |-> NewFakeGPIO(d[p])] : d \in [Pins -> {GPIO_IN, GPIO_OUT}]}
    /\ ret = [op |-> NoCall, err |-> Returned]
    /\ unwired = [src |-> Nil, pins |-> {}]

(***************************************************************************)
(* gpio_sysfs.go: one SysfsGPIO, its files in /sys/class/gpio/gpioN and    *)
(* the goroutines SetEdgeCallback starts on it.                            *)
(***************************************************************************)

\* the constants for GPIO edge callbacks
RISING == 0
FALLING == 1
BOTH == 2
NONE == 3

\* most values the consumer takes from the channel before it stalls
MaxRecv == 2
\* most level changes of the line after a goroutine was started
MaxTransitions == 2
\* largest capacity the consumer gives the channel (0 is unbuffered)
ChanCap == 1

\* the goroutines one run can start; Monitored are those SpecMon starts
Tasks == {1, 2}
Monitored == {1}

\* timeouts given to SetEdgeCallback: negative waits for ever
TimeoutArgs == {-1, 1}

NilErr == "nil"
IOError == "i/o error"
ErrEdgeNone == "Edge value is set to NONE"
ErrInvalidEdge == "Invalid edge state"
ErrWtf == "wtf ?"
NoAttach == "not called"

\* the text SetEdge writes for an edge constant, "" when it writes nothing
EdgeText(e) ==
    IF e = RISING THEN "rising"
    ELSE IF e = FALLING THEN "falling"
    ELSE IF e = BOTH THEN "both"
    ELSE IF e = NONE THEN "none"
    ELSE ""

\* SysfsGPIO.GetEdge on the edge file
GetEdge(exp, text) ==
    IF ~exp THEN [edge |-> "", err |-> IOError]
    ELSE IF text \in {"none", "both", "rising", "falling"}
         THEN [edge |-> text, err |-> NilErr]
         ELSE [edge |-> "", err |-> ErrInvalidEdge]

\* the bytes the kernel gives for the value file
ValueText(lv) == IF lv THEN <<"1", "\n">> ELSE <<"0", "\n">>

\* GetState taking '0' for true
SysfsGetStateInverted(exp, lv) ==
    IF ~exp THEN [state |-> FALSE, err |-> IOError]
    ELSE IF Len(ValueText(lv)) # 2 THEN [state |-> FALSE, err |-> ErrWtf]
    ELSE [state |-> ValueText(lv)[1] = "0", err |-> NilErr]

\* SysfsGPIO.GetState on gpio.fd: the Read fails once the file is gone
SysfsGetState(exp, lv) ==
    IF ~exp THEN [state |-> FALSE, err |-> IOError]
    ELSE IF Len(ValueText(lv)) # 2 THEN [state |-> FALSE, err |-> ErrWtf]
    ELSE [state |-> ValueText(lv)[1] = "1", err |-> NilErr]

\* the checks of SetEdgeCallback ahead of its go statement, with the direction
\* taken into account as well
SetEdgeCallbackErrInputOnly(exp, text) ==
    IF GetEdge(exp, text).err # NilErr THEN GetEdge(exp, text).err
    ELSE IF GetEdge(exp, text).edge = "none" \/ direction # "in" THEN ErrEdgeNone
    ELSE NilErr

\* the checks of SetEdgeCallback ahead of its go statement, without the one
\* for "none"
SetEdgeCallbackErrAnyEdge(exp, text) == GetEdge(exp, text).err

\* the checks of SetEdgeCallback ahead of its go statement, with a refusal
\* while a goroutine of an earlier call is running
SetEdgeCallbackErrSingle(exp, text) ==
    IF \E m \in Tasks : pc[m] \in {"dummy", "poll", "read", "send", "exit"}
    THEN "conflict"
    ELSE IF GetEdge(exp, text).err # NilErr THEN GetEdge(exp, text).err
    ELSE IF GetEdge(exp, text).edge = "none" THEN ErrEdgeNone
    ELSE NilErr

\* the checks of SetEdgeCallback ahead of its go statement: what it returns
SetEdgeCallbackErr(exp, text) ==
    IF GetEdge(exp, text).err # NilErr THEN GetEdge(exp, text).err
    ELSE IF GetEdge(exp, text).edge = "none" THEN ErrEdgeNone
    ELSE NilErr

\* after Poll, with a return on n = 0
AfterPollSkipTimeout(n, err) ==
    IF err # NilErr THEN "exit" ELSE IF n = 0 THEN "dummy" ELSE "read"

\* after Poll, with a timeout taken for the end
AfterPollExitOnTimeout(n, err) ==
    IF err # NilErr \/ n = 0 THEN "exit" ELSE "read"

\* after unix.Poll: break on an error; the count n is dropped
AfterPoll(n, err) == IF err # NilErr THEN "exit" ELSE "read"

\* after the second GetState, with its error dropped
AfterReadIgnoringErr(err) == "send"

\* after the second GetState: break on an error, else send
AfterRead(err) == IF err # NilErr THEN "exit" ELSE "send"

\* whether a change of the line to lv is an edge the edge file asks for
EdgeFires(text, lv) ==
    \/ text = "both"
    \/ text = "rising" /\ lv
    \/ text = "falling" /\ ~lv

Started == {m \in Tasks : pc[m] # "idle"}
PushCount == Len(received) + Len(ch.buf)
Mark(failed) == IF failed /\ failedAt = -1 THEN PushCount ELSE failedAt

\* NewSysfsGPIO has run: gpioN is exported, the direction written, gpio.fd
\* open; what the kernel holds for edge, level and notification is not known
InitSysfs ==
    /\ direction \in {"in", "out"}
    /\ edge \in {"none", "rising", "falling", "both"}
    /\ level \in BOOLEAN
    /\ pending \in BOOLEAN
    /\ exported = TRUE
    /\ pc = [m \in Tasks |-> "idle"]
    /\ timeout = [m \in Tasks |-> -1]
    /\ st = [m \in Tasks |-> FALSE]
    /\ woke = [m \in Tasks |-> "none"]
    /\ ch \in {[buf |-> <<>>, cap |-> c, closed |-> "open"] : c \in 0..ChanCap}
    /\ received = <<>>
    /\ attachErr = NoAttach
    /\ crashed = FALSE
    /\ reads = [m \in Tasks |-> <<>>]
    /\ ntrans = 0
    /\ spaced = TRUE
    /\ matched = TRUE
    /\ failedAt = -1

\* no SysfsGPIO was made
NoSysfs ==
    /\ direction = "in" /\ edge = "none" /\ level = FALSE /\ pending = FALSE
    /\ exported = TRUE
    /\ pc = [m \in Tasks |-> "idle"]
    /\ timeout = [m \in Tasks |-> -1]
    /\ st = [m \in Tasks |-> FALSE]
    /\ woke = [m \in Tasks |-> "none"]
    /\ ch = [buf |-> <<>>, cap |-> 0, closed |-> "open"]
    /\ received = <<>>
    /\ attachErr = NoAttach
    /\ crashed = FALSE
    /\ reads = [m \in Tasks |-> <<>>]
    /\ ntrans = 0 /\ spaced = TRUE /\ matched = TRUE /\ failedAt = -1

\* SysfsGPIO.SetDirection: "out" for OUT, "in" for anything else
SysfsSetDirection(dir_) ==
    /\ ~crashed /\ exported
    /\ direction' = IF dir_ = GPIO_OUT THEN "out" ELSE "in"
    /\ direction' # direction
    /\ UNCHANGED <<edge, level, pending, exported, gvars, cvars, hvars>>

\* SysfsGPIO.SetEdge: writes the text of a valid constant
SysfsSetEdge(e) ==
    /\ ~crashed /\ exported
    /\ EdgeText(e) # ""
    /\ edge' = EdgeText(e)
    /\ edge' # edge
    /\ UNCHANGED <<direction, level, pending, exported, gvars, cvars, hvars>>

\* the line changes to lv; the kernel notes an edge for gpio.fd if the edge
\* mode asks for it
LineChange(lv) ==
    /\ ~crashed /\ exported
    /\ lv # level
    /\ Started # {} => ntrans < MaxTransitions
    /\ level' = lv
    /\ pending' = (pending \/ EdgeFires(edge, lv))
    /\ ntrans' = IF Started # {} THEN ntrans + 1 ELSE ntrans
    /\ spaced' = (spaced /\ \A m \in Started : pc[m] = "poll" /\ ~pending)
    /\ matched' = (matched /\ (Started # {} => EdgeFires(edge, lv)))
    /\ UNCHANGED <<direction, edge, exported, gvars, cvars, reads, failedAt>>

\* gpioN is unexported: its files are gone for good
Unexport ==
    /\ ~crashed /\ exported
    /\ exported' = FALSE
    /\ UNCHANGED <<direction, edge, level, pending, gvars, cvars, hvars>>

\* SysfsGPIO.SetEdgeCallback(callback, t), its goroutine being m
SetEdgeCallback(m, t) ==
    /\ ~crashed
    /\ pc[m] = "idle"
    /\ attachErr' = SetEdgeCallbackErr(exported, edge)
    /\ IF attachErr' = NilErr
       THEN /\ pc' = [pc EXCEPT ![m] = "dummy"]
            /\ timeout' = [timeout EXCEPT ![m] = t]
       ELSE UNCHANGED <<pc, timeout>>
    /\ UNCHANGED <<kvars, st, woke, ch, received, crashed, hvars>>

\* the loop without its dummy read
MonDummySkipped(m) ==
    /\ ~crashed
    /\ pc[m] = "dummy"
    /\ pc' = [pc EXCEPT ![m] = "poll"]
    /\ UNCHANGED <<kvars, timeout, st, woke, cvars, hvars>>

\* the dummy read made ahead of the loop, once
MonDummyOnce(m) ==
    /\ ~crashed
    /\ pc[m] = "dummy"
    /\ pending' = (IF exported /\ reads[m] = <<>> THEN FALSE ELSE pending)
    /\ pc' = [pc EXCEPT ![m] = "poll"]
    /\ failedAt' = Mark(reads[m] = <<>> /\ SysfsGetState(exported, level).err # NilErr)
    /\ UNCHANGED <<direction, edge, level, exported, timeout, st, woke, cvars,
                   reads, ntrans, spaced, matched>>

\* the dummy read at the head of the loop; its result is dropped
MonDummy(m) ==
    /\ ~crashed
    /\ pc[m] = "dummy"
    /\ pending' = (IF exported THEN FALSE ELSE pending)
    /\ pc' = [pc EXCEPT ![m] = "poll"]
    /\ failedAt' = Mark(SysfsGetState(exported, level).err # NilErr)
    /\ UNCHANGED <<direction, edge, level, exported, timeout, st, woke, cvars,
                   reads, ntrans, spaced, matched>>

\* unix.Poll returns: n = 1 with an edge noted or the file gone, n = 0 when
\* the timeout has passed, or an error (EINTR)
MonPoll(m, n, err) ==
    /\ ~crashed
    /\ pc[m] = "poll"
    /\ \/ err = NilErr /\ n = 1 /\ (pending \/ ~exported)
       \/ err = NilErr /\ n = 0 /\ timeout[m] >= 0 /\ ~pending
       \/ err = IOError /\ n = 0
    /\ pc' = [pc EXCEPT ![m] = AfterPoll(n, err)]
    /\ woke' = [woke EXCEPT ![m] = IF err # NilErr THEN "error"
                                   ELSE IF n = 0 THEN "timeout"
                                   ELSE IF pending THEN "edge" ELSE "gone"]
    /\ failedAt' = Mark(err # NilErr)
    /\ UNCHANGED <<kvars, timeout, st, cvars, reads, ntrans, spaced, matched>>

\* state, err := gpio.GetState()
MonRead(m) ==
    /\ ~crashed
    /\ pc[m] = "read"
    /\ LET r == SysfsGetState(exported, level)
       IN  /\ pc' = [pc EXCEPT ![m] = AfterRead(r.err)]
           /\ st' = [st EXCEPT ![m] = r.state]
           /\ pending' = (IF exported THEN FALSE ELSE pending)
           /\ reads' = IF r.err = NilErr
                       THEN [reads EXCEPT ![m] =
                                Append(@, [val |-> r.state, cause |-> woke[m]])]
                       ELSE reads
           /\ failedAt' = Mark(r.err # NilErr)
    /\ UNCHANGED <<direction, edge, level, exported, timeout, woke, cvars,
                   ntrans, spaced, matched>>

\* the send as a select with a default: a value the channel cannot take now is
\* dropped
MonSendDropping(m) ==
    /\ ~crashed
    /\ pc[m] = "send"
    /\ ch.closed = "open"
    /\ \/ /\ Len(ch.buf) < ch.cap
          /\ ch' = [ch EXCEPT !.buf = Append(@, st[m])]
          /\ UNCHANGED <<received, crashed>>
       \/ /\ ch.cap = 0 /\ Len(received) < MaxRecv
          /\ received' = Append(received, st[m])
          /\ UNCHANGED <<ch, crashed>>
       \/ /\ Len(ch.buf) >= ch.cap
          /\ UNCHANGED <<ch, received, crashed>>
    /\ pc' = [pc EXCEPT ![m] = "dummy"]
    /\ UNCHANGED <<kvars, timeout, st, woke, attachErr, hvars>>

\* *callback <- state: into the buffer, or handed to the waiting consumer; on a
\* closed channel it panics, and so does the deferred close
MonSend(m) ==
    /\ ~crashed
    /\ pc[m] = "send"
    /\ \/ /\ ch.closed # "open"
          /\ crashed' = TRUE
          /\ pc' = [pc EXCEPT ![m] = "panic"]
          /\ UNCHANGED <<ch, received>>
       \/ /\ ch.closed = "open"
          /\ Len(ch.buf) < ch.cap
          /\ ch' = [ch EXCEPT !.buf = Append(@, st[m])]
          /\ pc' = [pc EXCEPT ![m] = "dummy"]
          /\ UNCHANGED <<received, crashed>>
       \/ /\ ch.closed = "open"
          /\ ch.cap = 0
          /\ Len(received) < MaxRecv
          /\ received' = Append(received, st[m])
          /\ pc' = [pc EXCEPT ![m] = "dummy"]
          /\ UNCHANGED <<ch, crashed>>
    /\ UNCHANGED <<kvars, timeout, st, woke, attachErr, hvars>>

\* the close made inside the loop, which then goes on
MonCloseAndLoop(m) ==
    /\ ~crashed
    /\ pc[m] = "exit"
    /\ ch.closed = "open"
    /\ ch' = [ch EXCEPT !.closed = "monitor"]
    /\ pc' = [pc EXCEPT ![m] = "dummy"]
    /\ UNCHANGED <<kvars, timeout, st, woke, received, attachErr, crashed, hvars>>

\* defer close(*callback), after a break
MonClose(m) ==
    /\ ~crashed
    /\ pc[m] = "exit"
    /\ IF ch.closed = "open"
       THEN /\ ch' = [ch EXCEPT !.closed = "monitor"]
            /\ pc' = [pc EXCEPT ![m] = "done"]
            /\ UNCHANGED crashed
       ELSE /\ crashed' = TRUE
            /\ pc' = [pc EXCEPT ![m] = "panic"]
            /\ UNCHANGED ch
    /\ UNCHANGED <<kvars, timeout, st, woke, received, attachErr, hvars>>

\* the consumer takes a value from the buffer
Recv ==
    /\ ~crashed
    /\ ch.buf # <<>>
    /\ Len(received) < MaxRecv
    /\ received' = Append(received, Head(ch.buf))
    /\ ch' = [ch EXCEPT !.buf = Tail(@)]
    /\ UNCHANGED <<kvars, gvars, attachErr, crashed, hvars>>

\* the consumer closes the channel
ConsumerClose ==
    /\ ~crashed
    /\ ch.closed = "open"
    /\ ch' = [ch EXCEPT !.closed = "consumer"]
    /\ UNCHANGED <<kvars, gvars, received, attachErr, crashed, hvars>>

\* no FakeGPIO is in use
NoGraph ==
    /\ gpio = [p \in Pins |-> NewFakeGPIO(GPIO_IN)]
    /\ ret = [op |-> NoCall, err |-> Returned]
    /\ unwired = [src |-> Nil, pins |-> {}]

InitMon == NoGraph /\ InitSysfs

NextMon ==
    \/ \E d \in {GPIO_IN, GPIO_OUT} : SysfsSetDirection(d) /\ UNCHANGED fvars
    \/ \E e \in {RISING, FALLING, BOTH, NONE} : SysfsSetEdge(e) /\ UNCHANGED fvars
    \/ \E lv \in BOOLEAN : LineChange(lv) /\ UNCHANGED fvars
    \/ Unexport /\ UNCHANGED fvars
    \/ \E m \in Monitored, t \in TimeoutArgs : SetEdgeCallback(m, t) /\ UNCHANGED fvars
    \/ \E m \in Monitored : MonDummy(m) /\ UNCHANGED fvars
    \/ \E m \in Monitored, n \in {0, 1}, err \in {NilErr, IOError} :
            MonPoll(m, n, err) /\ UNCHANGED fvars
    \/ \E m \in Monitored : MonRead(m) /\ UNCHANGED fvars
    \/ \E m \in Monitored : MonSend(m) /\ UNCHANGED fvars
    \/ \E m \in Monitored : MonClose(m) /\ UNCHANGED fvars
    \/ Recv /\ UNCHANGED fvars
    \/ ConsumerClose /\ UNCHANGED fvars

\* one SysfsGPIO with one goroutine of SetEdgeCallback, its consumer and the
\* kernel
SpecMon == InitMon /\ [][NextMon]_vars

\* SetEdgeCallback called again while a goroutine runs: both goroutines use
\* gpio.fd, and the caller has given both the same unbuffered channel. The
\* direction and the edge file are set before the calls and then left alone.
InitTwo ==
    /\ InitMon
    /\ direction = "in" /\ ch.cap = 0

NextTwo ==
    \/ \E lv \in BOOLEAN : LineChange(lv) /\ UNCHANGED fvars
    \/ Unexport /\ UNCHANGED fvars
    \/ \E m \in Tasks, t \in TimeoutArgs : SetEdgeCallback(m, t) /\ UNCHANGED fvars
    \/ \E m \in Tasks : MonDummy(m) /\ UNCHANGED fvars
    \/ \E m \in Tasks, n \in {0, 1}, err \in {NilErr, IOError} :
            MonPoll(m, n, err) /\ UNCHANGED fvars
    \/ \E m \in Tasks : MonRead(m) /\ UNCHANGED fvars
    \/ \E m \in Tasks : MonSend(m) /\ UNCHANGED fvars
    \/ \E m \in Tasks : MonClose(m) /\ UNCHANGED fvars

SpecTwo == InitTwo /\ [][NextTwo]_vars

\* the simulation graph alone: no SysfsGPIO is in use
InitFake == InitGraph /\ NoSysfs

NextFake ==
    \/ \E p \in Pins, state \in BOOLEAN :
            SetState(p, state) /\ UNCHANGED <<unwired, mvars>>
    \/ \E p \in Pins, state \in BOOLEAN :
            FakeInput(p, state) /\ UNCHANGED <<unwired, mvars>>
    \/ \E p \in Pins, conn \in ConnArgs :
            ConnectTo(p, conn) /\ UNCHANGED <<unwired, mvars>>
    \/ \E p \in Pins, dir_ \in {GPIO_IN, GPIO_OUT, BadDirection} :
            SetDirection(p, dir_) /\ UNCHANGED <<unwired, mvars>>

SpecFake == InitFake /\ [][NextFake]_vars

\* the same calls, with the history of what the last ConnectTo dropped
NextRewire ==
    \/ \E p \in Pins, state \in BOOLEAN :
            SetState(p, state) /\ UNCHANGED <<unwired, mvars>>
    \/ \E p \in Pins, state \in BOOLEAN :
            FakeInput(p, state) /\ UNCHANGED <<unwired, mvars>>
    \/ \E p \in Pins, conn \in ConnArgs :
            /\ ConnectTo(p, conn)
            /\ unwired' = [src |-> p, pins |-> Dropped(p, conn)]
            /\ UNCHANGED mvars
    \/ \E p \in Pins, dir_ \in {GPIO_IN, GPIO_OUT, BadDirection} :
            SetDirection(p, dir_) /\ UNCHANGED <<unwired, mvars>>

SpecRewire == InitFake /\ [][NextRewire]_vars

(***************************************************************************)
(* Claims about the simulation graph.                                      *)
(***************************************************************************)

\* the gpios of a list that are not nil
Targets(conn) == Range(conn) \ {Nil}

\* C1: SetState on a gpio whose direction is IN panics ("tried to set state on
\* IN gpio") and changes nothing: not the gpio's value, not the value of any
\* gpio connected to it, not any other gpio.
C1_DriveInputFails ==
    [][\A p \in Pins, state \in BOOLEAN :
          (gpio[p].dir = GPIO_IN /\ SetState(p, state))
              => (ret'.err = PanicSetStateIN /\ gpio' = gpio)]_vars

\* a SetState(TRUE or FALSE) has panicked on an IN gpio that has a gpio
\* connected to it, and values of both kinds exist in the graph
C1_Witness ==
    /\ ret = [op |-> "SetState", err |-> PanicSetStateIN]
    /\ \E p \in Pins : /\ gpio[p].dir = GPIO_IN
                       /\ Targets(gpio[p].connectedTo) # {}
                       /\ \E t \in Targets(gpio[p].connectedTo) :
                              gpio[t].value # gpio[p].value

\* C2: a SetState(p, v) that returns leaves p and every gpio connected to p
\* holding v, for v true and false and however many drives came before; and it
\* does return when p is OUT and every connected gpio is IN.
C2_DrivePropagates ==
    [][\A p \in Pins, state \in BOOLEAN :
          SetState(p, state) =>
              /\ (ret'.err = Returned =>
                     /\ gpio'[p].value = state
                     /\ \A t \in Targets(gpio[p].connectedTo) :
                            gpio'[t].value = state)
              /\ ((/\ gpio[p].dir = GPIO_OUT
                   /\ \A t \in Targets(gpio[p].connectedTo) : gpio[t].dir = GPIO_IN)
                     => ret'.err = Returned)]_vars

\* a SetState has returned, and an OUT gpio with two different IN gpios
\* connected holds true, as do both of them
C2_Witness ==
    /\ ret = [op |-> "SetState", err |-> Returned]
    /\ \E p \in Pins :
          /\ gpio[p].dir = GPIO_OUT /\ gpio[p].value
          /\ Len(gpio[p].connectedTo) = 2
          /\ Cardinality(Targets(gpio[p].connectedTo)) = 2
          /\ \A t \in Targets(gpio[p].connectedTo) :
                 gpio[t].dir = GPIO_IN /\ gpio[t].value

\* C3: ConnectTo replaces the whole list of its gpio: a SetState(p, v) changes
\* only p and the gpios now connected to p, and every gpio that the last
\* ConnectTo on p dropped from p's list keeps its value.
C3_WireReplaces ==
    [][ret'.op = "SetState" =>
          \A p \in Pins, state \in BOOLEAN :
              SetState(p, state) =>
                  /\ \A q \in Pins \ ({p} \cup Targets(gpio[p].connectedTo)) :
                         gpio'[q] = gpio[q]
                  /\ (p = unwired.src =>
                         \A q \in unwired.pins \ {p} : gpio'[q] = gpio[q])]_vars

\* a SetState has returned; the gpio it could only have driven holds true, has
\* nothing connected any more, and an IN gpio dropped from its list holds false
C3_Witness ==
    /\ ret = [op |-> "SetState", err |-> Returned]
    /\ unwired.src # Nil
    /\ gpio[unwired.src].dir = GPIO_OUT
    /\ gpio[unwired.src].value
    /\ gpio[unwired.src].connectedTo = <<>>
    /\ \E q \in unwired.pins : gpio[q].dir = GPIO_IN /\ ~gpio[q].value
    /\ \A q \in Pins \ {unwired.src} : ~gpio[q].value

\* C4 as stated: a ConnectTo whose list holds a gpio that is not IN fails.
C4_WireChecksTargets ==
    [][ret'.op = "ConnectTo" =>
          \A p \in Pins, conn \in ConnArgs :
              (/\ ConnectTo(p, conn)
               /\ \E t \in Targets(conn) : gpio[t].dir # GPIO_IN)
                  => ret'.err # Returned]_vars

\* C4, amended: ConnectTo checks no direction; a list that holds a gpio that is
\* not IN is stored as given, ConnectTo returns, and nothing else changes. A connected
\* gpio that is not IN is found at drive time: SetState on the OUT source then
\* panics in FakeInput.
C4_WireUncheckedDriveFails ==
    [][/\ ret'.op = "ConnectTo" =>
             \A conn \in ConnArgs :
                 (\E t \in Targets(conn) : gpio[t].dir # GPIO_IN) =>
                     \A p \in Pins :
                         ConnectTo(p, conn) =>
                             /\ ret'.err = Returned
                             /\ gpio' = [gpio EXCEPT ![p].connectedTo = conn]
       /\ ret'.op = "SetState" =>
             \A p \in Pins, state \in BOOLEAN :
                 (/\ SetState(p, state)
                  /\ gpio[p].dir = GPIO_OUT
                  /\ \E t \in Targets(gpio[p].connectedTo) : gpio[t].dir # GPIO_IN)
                     => ret'.err = PanicFakeInputOUT]_vars

\* a ConnectTo has returned and an OUT gpio is connected to an OUT gpio that
\* was never driven
C4_Witness ==
    /\ ret = [op |-> "ConnectTo", err |-> Returned]
    /\ \E p \in Pins : /\ gpio[p].dir = GPIO_OUT
                       /\ \E t \in Targets(gpio[p].connectedTo) :
                              t # p /\ gpio[t].dir = GPIO_OUT
    /\ \A q \in Pins : ~gpio[q].value

\* C5: FakeInput on a gpio whose direction is OUT panics ("tried to fake input
\* for output gpio") and leaves the graph as it was, when the application
\* calls it; and when SetState reaches it through a connection, SetState ends
\* in that panic and the OUT gpio keeps its value.
C5_FakeInputOutputFails ==
    [][/\ \A p \in Pins, state \in BOOLEAN :
             (gpio[p].dir = GPIO_OUT /\ FakeInput(p, state))
                 => (ret'.err = PanicFakeInputOUT /\ gpio' = gpio)
       /\ \A p \in Pins, state \in BOOLEAN :
             (SetState(p, state) /\ gpio[p].dir = GPIO_OUT) =>
                 \A t \in Targets(gpio[p].connectedTo) :
                     gpio[t].dir = GPIO_OUT =>
                         /\ ret'.err = PanicFakeInputOUT
                         /\ t # p => gpio'[t].value = gpio[t].value
                         /\ t = p => gpio'[t].value = state]_vars

\* a FakeInput has panicked while an OUT gpio holds true
C5_Witness ==
    /\ ret = [op |-> "FakeInput", err |-> PanicFakeInputOUT]
    /\ \E p \in Pins : gpio[p].dir = GPIO_OUT /\ gpio[p].value

\* a SetState has ended in FakeInput's panic at a connected OUT gpio whose
\* value differs from the one driven
C5_WitnessPropagated ==
    /\ ret = [op |-> "SetState", err |-> PanicFakeInputOUT]
    /\ \E p \in Pins : /\ gpio[p].dir = GPIO_OUT
                       /\ \E t \in Targets(gpio[p].connectedTo) :
                              gpio[t].dir = GPIO_OUT /\ gpio[t].value # gpio[p].value

(***************************************************************************)
(* Claims about SetEdgeCallback and its goroutine.                         *)
(***************************************************************************)

IsPrefix(a, b) == Len(a) <= Len(b) /\ \A i \in 1..Len(a) : a[i] = b[i]

\* the values goroutine m has read after its Polls, in order
ReadVals(m) == [i \in 1..Len(reads[m]) |-> reads[m][i].val]

\* the reads of goroutine m that followed a Poll woken by an edge
EdgeReads(m) == {i \in 1..Len(reads[m]) : reads[m][i].cause = "edge"}

\* the level when the first goroutine was started, and the levels since
Level0 == IF ntrans % 2 = 0 THEN level ELSE ~level
Driven == [i \in 1..ntrans |-> IF i % 2 = 1 THEN ~Level0 ELSE Level0]

\* no Poll of m has timed out, and no wait or read has failed
NoTimeout(m) ==
    /\ \A i \in 1..Len(reads[m]) : reads[m][i].cause = "edge"
    /\ woke[m] \in {"none", "edge"}
NoFailure(m) ==
    /\ exported /\ failedAt = -1 /\ ~crashed
    /\ pc[m] \notin {"exit", "done", "panic"}

\* m waits in Poll, nothing is noted for it, the consumer has taken all
Quiet(m) == pc[m] = "poll" /\ ~pending /\ ch.buf = <<>>

\* C6: SetEdgeCallback on a gpio whose edge file reads "none" returns the error
\* "Edge value is set to NONE" and starts no goroutine; and as long as no
\* goroutine was started, nothing is pushed onto the channel and no goroutine
\* closes it.
C6_NoneEdgeRejected ==
    [][/\ \A m \in Tasks, t \in TimeoutArgs :
             (exported /\ edge = "none" /\ SetEdgeCallback(m, t)) =>
                 /\ attachErr' = ErrEdgeNone
                 /\ pc' = pc
                 /\ ch' = ch /\ received' = received
       /\ Started' = {} => (PushCount' = 0 /\ ch'.closed # "monitor")]_vars

\* SetEdgeCallback has failed on "none" with a stale notification on the fd,
\* and no goroutine exists
C6_Witness ==
    /\ attachErr = ErrEdgeNone
    /\ edge = "none" /\ exported /\ pending
    /\ Started = {}
    /\ received = <<>> /\ ch.buf = <<>> /\ ch.closed # "monitor"

\* C7 as stated: SetEdgeCallback on a gpio whose direction is not "in" fails
\* and starts no goroutine.
C7_NonInputRejected ==
    [][\A m \in Tasks, t \in TimeoutArgs :
          (direction # "in" /\ SetEdgeCallback(m, t)) =>
              (attachErr' # NilErr /\ pc' = pc)]_vars

\* C7, amended: SetEdgeCallback does not read the direction. On a gpio whose
\* direction is not "in" it fails, starting no goroutine, exactly when the edge
\* file cannot be read or reads "none"; with "rising", "falling" or "both" it
\* returns nil and starts its goroutine.
C7_DirectionNotChecked ==
    [][\A m \in Tasks, t \in TimeoutArgs :
          (direction # "in" /\ SetEdgeCallback(m, t)) =>
              /\ (attachErr' = NilErr) <=> (exported /\ edge # "none")
              /\ attachErr' = NilErr => pc' = [pc EXCEPT ![m] = "dummy"]
              /\ attachErr' # NilErr => pc' = pc]_vars

\* SetEdgeCallback has returned nil and its goroutine stands at its first
\* read, on a gpio whose direction is "out"
C7_Witness ==
    /\ attachErr = NilErr
    /\ direction = "out"
    /\ \E m \in Tasks : pc[m] = "dummy" /\ reads[m] = <<>>

\* C8 as stated: a goroutine started at level false, the line then changed to
\* true and back to false, every change an edge the edge mode reports, no
\* timeout, no failure, the consumer having taken every value: the consumer
\* holds true, false.
C8_TwoNotifications ==
    \A m \in Started :
        (/\ ~Level0 /\ ntrans = 2 /\ matched
         /\ NoTimeout(m) /\ NoFailure(m) /\ ch.closed = "open"
         /\ Quiet(m))
            => received = <<TRUE, FALSE>>

\* C8, amended: the same, provided each change of the line happened while the
\* goroutine was waiting in Poll with no notification outstanding: then what
\* it reads is at every moment a prefix of true, false, the consumer holds a
\* prefix of that, and once the goroutine waits again after the second change
\* the consumer holds exactly true, false.
C8_SpacedTransitionsNotified ==
    \A m \in Started :
        (/\ ~Level0 /\ matched /\ spaced
         /\ NoTimeout(m) /\ NoFailure(m) /\ ch.closed = "open")
            => /\ IsPrefix(ReadVals(m), Driven)
               /\ IsPrefix(received, ReadVals(m))
               /\ (Quiet(m) /\ ntrans = 2) => received = <<TRUE, FALSE>>

\* both changes were made and notified, and the goroutine waits again
C8_Witness ==
    \E m \in Started :
        /\ ~Level0 /\ ntrans = 2 /\ matched /\ spaced
        /\ NoTimeout(m) /\ NoFailure(m) /\ ch.closed = "open"
        /\ Quiet(m)
        /\ received = <<TRUE, FALSE>>

\* C9 as stated: nothing is pushed for a Poll that timed out, so the values
\* pushed never outnumber the Polls woken by an edge.
C9_NoPushOnTimeout == \A m \in Monitored : PushCount <= Cardinality(EdgeReads(m))

\* C9, amended: a Poll that returns because the timeout passed is treated as
\* one woken by an edge: the goroutine goes on to read the state and, the read
\* succeeding, to push it. The values pushed never outnumber the reads made
\* after a Poll returned without error, timed out or not.
C9_TimeoutPushes ==
    [][\A m \in Monitored :
          /\ MonPoll(m, 0, NilErr) => pc'[m] = "read"
          /\ (MonRead(m) /\ exported) => (pc'[m] = "send" /\ st'[m] = level)
          /\ PushCount' <= Len(reads'[m])]_vars

\* the consumer holds a value that was read after a Poll timed out
C9_Witness ==
    \E m \in Monitored : \E i \in 1..Len(reads[m]) :
        /\ reads[m][i].cause = "timeout"
        /\ Len(received) >= i
        /\ received[i] = reads[m][i].val

\* C10: once gpioN is gone, a Poll or the read after it that fails takes the
\* goroutine out of its loop with nothing pushed; out of the loop, the only
\* thing it does is close the channel, which is closed from then on; and from the first wait or read that
\* failed on, no value is pushed.
C10_ErrorClosesStream ==
    [][\A m \in Monitored :
          /\ MonPoll(m, 0, IOError) => (pc'[m] = "exit" /\ PushCount' = PushCount)
          /\ (MonRead(m) /\ ~exported) => (pc'[m] = "exit" /\ PushCount' = PushCount)
          /\ (pc[m] = "exit" /\ pc'[m] # "exit")
                 => /\ ch'.closed # "open"
                    /\ ch.closed = "open" =>
                           (pc'[m] = "done" /\ ch'.closed = "monitor")
          /\ failedAt # -1 => PushCount' = PushCount]_vars

\* gpioN is gone, the goroutine has closed the channel, and the consumer holds
\* the one value pushed before the failure
C10_Witness ==
    \E m \in Monitored :
        /\ ~exported
        /\ pc[m] = "done" /\ ch.closed = "monitor"
        /\ Len(reads[m]) = 1 /\ Len(received) = 1 /\ failedAt = 1

\* C11: a goroutine leaves its loop only by a Poll that returned an error or by
\* a GetState after Poll that returned an error, and the channel is closed by a
\* goroutine only once it has left its loop: with every Poll and read
\* succeeding, timeouts included, no goroutine closes the channel.
C11_ClosedOnlyOnError ==
    [][/\ \A m \in Monitored :
             (pc[m] # "exit" /\ pc'[m] = "exit") =>
                 \/ MonPoll(m, 0, IOError)
                 \/ MonRead(m) /\ SysfsGetState(exported, level).err # NilErr
       /\ (ch.closed # "monitor" /\ ch'.closed = "monitor") =>
              \E m \in Monitored : pc[m] = "exit" /\ MonClose(m)
       /\ ch'.closed = "monitor" => failedAt' # -1]_vars

\* a Poll has timed out and its value was taken by the consumer, a later Poll
\* returned an error, and the goroutine has closed the channel
C11_Witness ==
    \E m \in Monitored :
        /\ pc[m] = "done" /\ ch.closed = "monitor"
        /\ woke[m] = "error" /\ exported
        /\ Len(reads[m]) >= 1 /\ reads[m][1].cause = "timeout"
        /\ Len(received) >= 1

\* C12: with the channel closed by the consumer, the send of a goroutine fails
\* without a panic and the goroutine goes on to leave its loop and end; it
\* neither crashes the program nor stays at its send.
C12_ConsumerCloseStopsMonitor ==
    [][\A m \in Monitored :
          (ch.closed = "consumer" /\ MonSend(m)) =>
              (~crashed' /\ pc'[m] \in {"exit", "done"})]_vars

\* C13: what the consumer has received, followed by what the channel holds, is
\* at every moment a prefix of the values the goroutine read after its Polls,
\* in that order; and the goroutine is at its next read or Poll only when the
\* channel has taken every value read so far: one value is outstanding exactly
\* while the goroutine is at its send (or has panicked there).
C13_DeliveredInOrder ==
    \A m \in Monitored :
        /\ IsPrefix(received \o ch.buf, ReadVals(m))
        /\ pc[m] \in {"idle", "dummy", "poll", "read", "exit", "done"}
               => PushCount = Len(reads[m])
        /\ pc[m] = "send" => PushCount + 1 = Len(reads[m])
        /\ pc[m] = "panic" => Len(reads[m]) - PushCount \in {0, 1}

\* two different values were read; the consumer has taken the first, the
\* channel holds the second, and the goroutine waits in Poll again
C13_Witness ==
    \E m \in Monitored :
        /\ pc[m] = "poll"
        /\ Len(reads[m]) = 2 /\ reads[m][1].val # reads[m][2].val
        /\ received = <<reads[m][1].val>>
        /\ ch.buf = <<reads[m][2].val>>

\* the steps of a goroutine of SetEdgeCallback: started at its dummy read,
\* round the loop through Poll, read and send, out of the loop by a break, and
\* ended by the deferred close
Moves ==
    {<<"idle", "dummy">>, <<"dummy", "poll">>, <<"poll", "read">>,
     <<"read", "send">>, <<"send", "dummy">>,
     <<"poll", "exit">>, <<"read", "exit">>, <<"exit", "done">>}

\* a send or a close that panics
Crashes == {<<"send", "panic">>, <<"exit", "panic">>}

\* C14: a goroutine of SetEdgeCallback takes only the steps of Moves (or
\* panics, at its send or its close, and that only on a channel the consumer
\* has closed); and once it has closed the channel and ended it stays ended:
\* it pushes nothing, does not Poll or read, and the channel stays closed by
\* it, closed once.
C14_ClosedIsTerminal ==
    [][\A m \in Monitored :
          /\ pc'[m] # pc[m] =>
                 \/ <<pc[m], pc'[m]>> \in Moves
                 \/ <<pc[m], pc'[m]>> \in Crashes /\ ch.closed = "consumer"
          /\ pc[m] = "done" =>
                 /\ pc'[m] = "done"
                 /\ ch.closed = "monitor" /\ ch'.closed = "monitor"
                 /\ PushCount' = PushCount
                 /\ reads'[m] = reads[m] /\ woke'[m] = woke[m]
                 /\ ~crashed']_vars

\* the goroutine has ended after a Poll error with one value delivered, and an
\* edge that came since is noted on the fd, unread
C14_Witness ==
    \E m \in Monitored :
        /\ pc[m] = "done" /\ ch.closed = "monitor"
        /\ exported /\ pending /\ ntrans >= 1
        /\ Len(received) >= 1 /\ PushCount = Len(reads[m])

\* the goroutines of SetEdgeCallback that are running
Running == {m \in Tasks : pc[m] \in {"dummy", "poll", "read", "send", "exit"}}

\* C15 as stated: SetEdgeCallback on a gpio that has a running goroutine
\* returns an error and starts no goroutine, so at most one goroutine runs on
\* the gpio at any time.
C15_SecondAttachRejected ==
    [][/\ \A m \in Tasks, t \in TimeoutArgs :
             (Running # {} /\ SetEdgeCallback(m, t)) =>
                 (attachErr' # NilErr /\ pc' = pc)
       /\ Cardinality(Running') <= 1]_vars

\* C15, amended: SetEdgeCallback keeps no record of the goroutines it has
\* started. Called on a gpio that has a running goroutine it does what it does
\* on any gpio: it fails, starting nothing, exactly when the edge file cannot
\* be read or reads "none", and otherwise returns nil and starts one more
\* goroutine, which runs on the same gpio.fd beside the first.
C15_SecondAttachStartsSecondTask ==
    [][\A m \in Tasks, t \in TimeoutArgs :
          (Running # {} /\ SetEdgeCallback(m, t)) =>
              /\ (attachErr' = NilErr) <=> (exported /\ edge # "none")
              /\ attachErr' = NilErr =>
                     /\ pc' = [pc EXCEPT ![m] = "dummy"]
                     /\ Running' = Running \cup {m}
              /\ attachErr' # NilErr => pc' = pc]_vars

\* two goroutines of SetEdgeCallback are both about to read gpio.fd after a
\* Poll
C15_Witness ==
    /\ attachErr = NilErr
    /\ Cardinality(Running) = 2
    /\ \A m \in Tasks : pc[m] = "read"

\* C16: the dummy read clears a notification that was outstanding on gpio.fd
\* when SetEdgeCallback was called; and with a negative timeout and no change
\* of the line since the call, the goroutine reads nothing after a Poll and
\* pushes nothing, and, gpioN being there and no Poll or read having failed, it
\* is at its dummy read or in Poll and has not closed the channel.
C16_StaleReadinessDiscarded ==
    [][\A m \in Monitored :
          /\ (MonDummy(m) /\ exported /\ pending) => ~pending'
          /\ (pc'[m] # "idle" /\ timeout'[m] < 0 /\ ntrans' = 0) =>
                 /\ PushCount' = 0 /\ reads'[m] = <<>>
                 /\ (exported' /\ failedAt' = -1) =>
                        (pc'[m] \in {"dummy", "poll"} /\ ch'.closed # "monitor")]_vars

\* the goroutine waits in Poll for ever, its dummy read done, the line
\* unchanged since SetEdgeCallback, nothing pushed
C16_Witness ==
    \E m \in Monitored :
        /\ pc[m] = "poll" /\ timeout[m] < 0
        /\ exported /\ ~pending /\ ntrans = 0 /\ failedAt = -1
        /\ PushCount = 0 /\ ch.closed = "open"

\* C17 as stated: the dummy read is made once, ahead of the first Poll, so a
\* notification that comes onto gpio.fd while the goroutine, having read a
\* value, is at its send is still there when the goroutine gets to its next
\* Poll.
C17_DummyReadOnce ==
    [][\A m \in Monitored :
          (/\ reads[m] # <<>> /\ exported /\ pending
           /\ pc[m] \in {"send", "dummy"} /\ pc'[m] = "poll") => pending']_vars

\* C17, amended: the dummy read is made at the head of every turn of the loop,
\* ahead of every Poll: after its send the goroutine is at the dummy read, not
\* in Poll, and the dummy read clears whatever notification is on gpio.fd. A
\* change of the line notified while the goroutine was at its send is thereby
\* discarded: the next Poll does not return for it.
C17_DummyReadEveryTurn ==
    [][\A m \in Monitored :
          /\ (pc[m] = "send" /\ pc'[m] \notin {"send", "panic"}) => pc'[m] = "dummy"
          /\ pc'[m] = "poll" /\ pc[m] # "poll" => MonDummy(m)
          /\ (MonDummy(m) /\ exported) => ~pending']_vars

\* the line went to true and back to false, both edges notified; the goroutine
\* read true after the first, the consumer holds true alone, and the goroutine
\* waits in Poll with no notification left for the second
C17_Witness ==
    \E m \in Monitored :
        /\ pc[m] = "poll" /\ exported /\ ~pending
        /\ matched /\ ntrans = 2 /\ ~level
        /\ NoTimeout(m)
        /\ ReadVals(m) = <<TRUE>> /\ received = <<TRUE>>

\* C18: a SetState(p, v) gives v to the gpios connected to p and goes no
\* further: of a gpio t connected to p it changes the value alone, and a gpio
\* connected to t that is neither p nor connected to p itself is left as it
\* was, whatever the connections (chains, shared gpios, cycles).
C18_PropagationOneLevel ==
    [][ret'.op = "SetState" =>
          \A p \in Pins, state \in BOOLEAN :
              SetState(p, state) =>
                  \A t \in Targets(gpio[p].connectedTo) :
                      /\ gpio'[t].dir = gpio[t].dir
                      /\ gpio'[t].connectedTo = gpio[t].connectedTo
                      /\ \A u \in Targets(gpio[t].connectedTo) :
                             u \notin Targets(gpio[p].connectedTo) \cup {p}
                                 => gpio'[u] = gpio[u]]_vars

\* a SetState has returned on a chain p -> t -> u: p and t hold true, u still
\* holds false
C18_Witness ==
    /\ ret = [op |-> "SetState", err |-> Returned]
    /\ \E p \in Pins : \E t \in Targets(gpio[p].connectedTo) :
          \E u \in Targets(gpio[t].connectedTo) :
              /\ u # p /\ u # t /\ t # p
              /\ u \notin Targets(gpio[p].connectedTo)
              /\ gpio[p].dir = GPIO_OUT /\ gpio[t].dir = GPIO_IN
              /\ gpio[p].value /\ gpio[t].value /\ ~gpio[u].value

\* C19 as stated: in every state every gpio in a connectedTo list has
\* direction IN.
C19_EdgeTargetsAreInputs ==
    \A p \in Pins : \A t \in Targets(gpio[p].connectedTo) : gpio[t].dir = GPIO_IN

\* C19, amended: a connectedTo list may hold a gpio whose direction is not IN:
\* ConnectTo tests nothing, and SetDirection to IN or OUT returns and sets the
\* direction whether or not the gpio is in a list. What does hold is that a
\* SetState on p returns only when p is OUT and every gpio in p's list is IN.
C19_BadEdgeOnlyFailsDrive ==
    [][/\ ret'.op = "SetDirection" =>
              \A p \in Pins, dir_ \in {GPIO_IN, GPIO_OUT} :
                  SetDirection(p, dir_) =>
                      /\ ret'.err = Returned
                      /\ gpio' = [gpio EXCEPT ![p].dir = dir_]
       /\ (ret'.op = "SetState" /\ ret'.err = Returned) =>
              \A p \in Pins, state \in BOOLEAN :
                  SetState(p, state) =>
                      /\ gpio[p].dir = GPIO_OUT
                      /\ \A t \in Targets(gpio[p].connectedTo) :
                             gpio[t].dir = GPIO_IN]_vars

\* SetDirection has just returned, and an OUT gpio is in the list of another
\* OUT gpio; both hold true
C19_Witness ==
    /\ ret = [op |-> "SetDirection", err |-> Returned]
    /\ \E p \in Pins : \E t \in Targets(gpio[p].connectedTo) :
          /\ t # p
          /\ gpio[p].dir = GPIO_OUT /\ gpio[t].dir = GPIO_OUT
          /\ gpio[p].value /\ gpio[t].value

\* the index of the first gpio of conn that is not nil and not IN
FirstBad(g, conn) ==
    CHOOSE k \in 1..Len(conn) :
        /\ conn[k] # Nil /\ g[conn[k]].dir # GPIO_IN
        /\ \A i \in 1..(k - 1) : conn[i] = Nil \/ g[conn[i]].dir = GPIO_IN

\* the gpios of conn ahead of index k
Before(conn, k) == {conn[i] : i \in 1..(k - 1)} \ {Nil}

\* C20 as stated: a SetState(p, v) that panics, on p or on a gpio connected to
\* p, leaves the value of p and of every gpio connected to p as it was.
C20_FailedDriveChangesNothing ==
    [][ret'.op = "SetState" =>
          \A p \in Pins, state \in BOOLEAN :
              (SetState(p, state) /\ ret'.err # Returned) =>
                  /\ gpio'[p].value = gpio[p].value
                  /\ \A t \in Targets(gpio[p].connectedTo) :
                         gpio'[t].value = gpio[t].value]_vars

\* C20, amended: a SetState(p, v) that panics because p is IN changes nothing;
\* one that panics in FakeInput, on the first gpio of p's list that is not IN,
\* has by then given v to p and to every gpio ahead of that one in the list,
\* and has changed nothing else.
C20_FailedDrivePartial ==
    [][ret'.op = "SetState" =>
          \A p \in Pins, state \in BOOLEAN :
              SetState(p, state) =>
                  /\ ret'.err = PanicSetStateIN => gpio' = gpio
                  /\ ret'.err = PanicFakeInputOUT =>
                         LET conn == gpio[p].connectedTo
                             set == {p} \cup Before(conn, FirstBad(gpio, conn))
                         IN  /\ gpio[p].dir = GPIO_OUT
                             /\ \E k \in 1..Len(conn) :
                                    conn[k] # Nil /\ gpio[conn[k]].dir # GPIO_IN
                             /\ gpio' = [q \in Pins |->
                                           IF q \in set
                                           THEN [gpio[q] EXCEPT !.value = state]
                                           ELSE gpio[q]]]_vars

\* a SetState(true) has panicked in FakeInput on the second gpio of the list:
\* the source and the first gpio hold true, the second, an OUT gpio, false
C20_Witness ==
    /\ ret = [op |-> "SetState", err |-> PanicFakeInputOUT]
    /\ \E p \in Pins :
          /\ Len(gpio[p].connectedTo) = 2
          /\ gpio[p].connectedTo[1] # Nil /\ gpio[p].connectedTo[2] # Nil
          /\ gpio[p].dir = GPIO_OUT /\ gpio[p].value
          /\ gpio[gpio[p].connectedTo[1]].dir = GPIO_IN
          /\ gpio[gpio[p].connectedTo[1]].value
          /\ gpio[gpio[p].connectedTo[2]].dir = GPIO_OUT
          /\ ~gpio[gpio[p].connectedTo[2]].value
          /\ gpio[p].connectedTo[2] # p

====
